---- MODULE Spec2Model ----
(***************************************************************************)
(* The star-schema trade database (Backend/database.py), its ingestion     *)
(* paths (Backend/etl.py, load_market_data.py) and the analytics layer     *)
(* (Backend/analytics.py).                                                 *)
(*                                                                         *)
(* Modelling conventions                                                   *)
(*   - A table is the sequence of its rows in primary-key order; no row is *)
(*     ever deleted, so the autoincrement key of a new row is Len + 1.     *)
(*   - A datetime is a number of clock ticks; TicksPerDay ticks make one   *)
(*     calendar day, and datetime.date() drops the ticks within the day.   *)
(*   - Money (Float columns) is counted in exact units: sums and products  *)
(*     are exact, a quotient is the pair [num, den].  A quotient with      *)
(*     den = 0 stands for the IEEE inf/nan that numpy returns for a        *)
(*     division by zero (a warning, not an exception).  Floating rounding  *)
(*     is not modelled.                                                    *)
(*   - An Optional[int] argument is << >> (None) or <<v>>.                 *)
(***************************************************************************)
EXTENDS Integers, Sequences, FiniteSets, TLC

VARIABLES symbols, traders, strategies, trades, now, call, result, market, sessions

dbVars == <<symbols, traders, strategies, trades>>
\* market: the run of load_market_data in progress; sessions: the runs of
\* load_trading_data that are taken step by step, each in its own session
ingestVars == <<market, sessions>>
vars == <<symbols, traders, strategies, trades, now, call, result, market, sessions>>

(***************************************************************************)
(* Bounds of the model.                                                    *)
(***************************************************************************)
\* rows in the trade_facts table, general specification
MaxTrades == 2
\* rows of one CSV file
MaxRows == 2
\* the clock runs from StartNow to MaxNow
MaxNow == 5
\* rows in the trade_facts table, daily-series specification
MaxSeriesTrades == 3
\* rows in the trade_facts table beyond the top-symbols cut, top-symbols specification
MaxTopExtra == 1

TicksPerDay == 2
StartNow == MaxNow - 1

\* the values the CSV files of the model hold
CsvTimestamps == (MaxNow - 3) .. MaxNow
CsvQuantities == {0, 1}
CsvPrices == {2}
CsvTickers == {"AAPL", "BTC-USD"}
CsvTraders == {"John Smith"}
CsvStrategies == {"Momentum", "Value"}

\* ticker strings in Python's string order (what a sort by ticker yields)
SortedTickers ==
    <<"AAPL", "AMZN", "BTC-USD", "ETH-USD", "EUR/USD", "GOOGL", "META",
      "MSFT", "NFLX", "NVDA", "ORCL", "TSLA", "UBER", "XOM">>
\* asset classes in Python's string order
SortedAssetClasses == <<"Crypto", "Equity", "Forex", "Unknown">>

CsvAssetClass(ticker) ==
    IF ticker \in {"BTC-USD", "ETH-USD"} THEN "Crypto"
    ELSE IF ticker = "EUR/USD" THEN "Forex" ELSE "Equity"

(***************************************************************************)
(* Helpers.                                                                *)
(***************************************************************************)
None == << >>
Some(v) == <<v>>

RECURSIVE SumSeq(_)
SumSeq(s) == IF s = << >> THEN 0 ELSE Head(s) + SumSeq(Tail(s))

RECURSIVE Gcd(_, _)
Gcd(a, b) == IF b = 0 THEN a ELSE Gcd(b, a % b)
Abs(x) == IF x < 0 THEN -x ELSE x
Min(a, b) == IF a < b THEN a ELSE b

\* a float quotient n/d (den = 0: inf or nan), in lowest terms
Rat(n, d) ==
    IF d = 0 THEN [num |-> (IF n = 0 THEN 0 ELSE IF n > 0 THEN 1 ELSE -1), den |-> 0]
    ELSE LET g == Gcd(Abs(n), Abs(d))
             s == IF d < 0 THEN -1 ELSE 1
         IN  [num |-> s * (n \div g), den |-> s * (d \div g)]
FromInt(n) == [num |-> n, den |-> 1]
IsFinite(r) == r.den /= 0
RatAdd(a, b) == Rat(a.num * b.den + b.num * a.den, a.den * b.den)
RatSub(a, b) == Rat(a.num * b.den - b.num * a.den, a.den * b.den)
RatMul(a, b) == Rat(a.num * b.num, a.den * b.den)
RECURSIVE RatSum(_)
RatSum(s) == IF s = << >> THEN FromInt(0) ELSE RatAdd(Head(s), RatSum(Tail(s)))

\* query(Table).filter(Table.col == v).first(): the first row whose column col
\* is v, None when there is none
First(table, col, v) ==
    LET hits == SelectSeq(table, LAMBDA r : r[col] = v)
    IN  IF hits = << >> THEN None ELSE Some(Head(hits))

\* row.get(key, default) of a CSV row
Get(row, key, default) == IF key \in DOMAIN row THEN row[key] ELSE default

(***************************************************************************)
(* Backend/etl.py: load_trading_data.                                      *)
(***************************************************************************)
\* the session's view of the four tables
DB == [symbols |-> symbols, traders |-> traders, strategies |-> strategies,
       trades |-> trades]

\* one iteration of the loop with the three lookups left out: every row of the
\* file inserts its own dimension rows
LoadRowNoLookup(db, row) ==
    LET symbol == [id |-> Len(db.symbols) + 1,
                   symbol |-> row.symbol,
                   asset_class |-> Get(row, "asset_class", "Unknown"),
                   sector |-> Get(row, "sector", "Unknown")]
        trader == [id |-> Len(db.traders) + 1,
                   name |-> row.trader,
                   team |-> Get(row, "team", "Unknown")]
        strategy == [id |-> Len(db.strategies) + 1,
                     name |-> row.strategy,
                     type |-> Get(row, "strategy_type", "Unknown"),
                     risk_profile |-> Get(row, "risk_profile", "Medium")]
        trade == [id |-> Len(db.trades) + 1,
                  timestamp |-> row.timestamp,
                  quantity |-> row.quantity,
                  price |-> row.price,
                  total_value |-> row.quantity * row.price,
                  symbol_id |-> symbol.id,
                  trader_id |-> trader.id,
                  strategy_id |-> strategy.id]
    IN  [symbols |-> Append(db.symbols, symbol), traders |-> Append(db.traders, trader),
         strategies |-> Append(db.strategies, strategy),
         trades |-> Append(db.trades, trade)]

\* one iteration of the loop over the rows of the file; the timestamp column
\* of the files of the model already holds the tick pd.to_datetime yields
LoadRow(db, row) ==
    LET foundSym == First(db.symbols, "symbol", row.symbol)
        symTable == IF foundSym = None
                    THEN Append(db.symbols,
                                [id |-> Len(db.symbols) + 1,
                                 symbol |-> row.symbol,
                                 asset_class |-> Get(row, "asset_class", "Unknown"),
                                 sector |-> Get(row, "sector", "Unknown")])
                    ELSE db.symbols
        symbol == IF foundSym = None THEN symTable[Len(symTable)] ELSE foundSym[1]
        foundTrader == First(db.traders, "name", row.trader)
        traderTable == IF foundTrader = None
                       THEN Append(db.traders,
                                   [id |-> Len(db.traders) + 1,
                                    name |-> row.trader,
                                    team |-> Get(row, "team", "Unknown")])
                       ELSE db.traders
        trader == IF foundTrader = None THEN traderTable[Len(traderTable)]
                  ELSE foundTrader[1]
        foundStrat == First(db.strategies, "name", row.strategy)
        stratTable == IF foundStrat = None
                      THEN Append(db.strategies,
                                  [id |-> Len(db.strategies) + 1,
                                   name |-> row.strategy,
                                   type |-> Get(row, "strategy_type", "Unknown"),
                                   risk_profile |-> Get(row, "risk_profile", "Medium")])
                      ELSE db.strategies
        strategy == IF foundStrat = None THEN stratTable[Len(stratTable)]
                    ELSE foundStrat[1]
        trade == [id |-> Len(db.trades) + 1,
                  timestamp |-> row.timestamp,
                  quantity |-> row.quantity,
                  price |-> row.price,
                  total_value |-> row.quantity * row.price,
                  symbol_id |-> symbol.id,
                  trader_id |-> trader.id,
                  strategy_id |-> strategy.id]
    IN  [symbols |-> symTable, traders |-> traderTable, strategies |-> stratTable,
         trades |-> Append(db.trades, trade)]

RECURSIVE LoadRows(_, _)
LoadRows(db, rows) ==
    IF rows = << >> THEN db ELSE LoadRows(LoadRow(db, Head(rows)), Tail(rows))

\* the whole run: every row in one session, then the commit
load_trading_data(rows) ==
    LET db == LoadRows(DB, rows)
    IN  /\ symbols' = db.symbols
        /\ traders' = db.traders
        /\ strategies' = db.strategies
        /\ trades' = db.trades
        /\ UNCHANGED <<now, call, result, ingestVars>>

(***************************************************************************)
(* Backend/analytics.py: calculate_trading_metrics.                        *)
(***************************************************************************)
\* `if strategy_id:` on an Optional[int]: None and 0 are both false
Truthy(opt) == opt /= None /\ opt[1] /= 0

\* timedelta(days=days)
TimeDelta(days) == days * TicksPerDay

\* the query built from the arguments, executed: rows in primary-key order
MetricsQuery(strategy_id, symbol_id, days) ==
    LET start_date == now - TimeDelta(days)
        Keep(t) == /\ t.timestamp >= start_date
                   /\ (Truthy(strategy_id) => t.strategy_id = strategy_id[1])
                   /\ (Truthy(symbol_id) => t.symbol_id = symbol_id[1])
    IN  SelectSeq(trades, Keep)

\* datetime.date(): the calendar day of a timestamp
DateOf(ts) == ts \div TicksPerDay

\* date.isoformat(): day ordinal 0 is 2025-01-08; the day of the month is
\* written with two digits
EpochDay == 8
IsoFormat(d) == [ym |-> "2025-01", dd |-> <<(EpochDay + d) \div 10, (EpochDay + d) % 10>>]

\* trade_dates after the grouping loop: its keys, and the list under a key
DateKeys(sel) == {DateOf(sel[i].timestamp) : i \in 1 .. Len(sel)}
\* trade_dates[date_key] = [trade] in place of the append
TradesOnDateOverwrite(sel, d) ==
    LET on == SelectSeq(sel, LAMBDA t : DateOf(t.timestamp) = d)
    IN  <<on[Len(on)]>>
TradesOnDate(sel, d) == SelectSeq(sel, LAMBDA t : DateOf(t.timestamp) = d)

\* sorted(...) of a set of dates
RECURSIVE SortedAsc(_)
SortedAsc(S) ==
    IF S = {} THEN << >>
    ELSE LET m == CHOOSE x \in S : \A y \in S : x <= y
         IN  <<m>> \o SortedAsc(S \ {m})
\* sorted(..., reverse=True)
RECURSIVE SortedDesc(_)
SortedDesc(S) ==
    IF S = {} THEN << >>
    ELSE LET m == CHOOSE x \in S : \A y \in S : x >= y
         IN  <<m>> \o SortedDesc(S \ {m})
SortedDates(S) == SortedAsc(S)

TotalValues(ts) == [i \in 1 .. Len(ts) |-> ts[i].total_value]

\* the loop over sorted(trade_dates.items())
DailyValues(sel) ==
    LET dates == SortedDates(DateKeys(sel))
    IN  [i \in 1 .. Len(dates) |->
            LET date_trades == TradesOnDate(sel, dates[i])
            IN  [date |-> IsoFormat(dates[i]),
                 value |-> SumSeq(TotalValues(date_trades)),
                 trade_count |-> Len(date_trades)]]

\* np.diff(values) / values[:-1]
PctChanges(values) ==
    [i \in 1 .. Len(values) - 1 |-> Rat(values[i + 1] - values[i], values[i])]

\* np.std(diffs) squared: the population variance; nan as soon as one of the
\* changes is inf or nan
Variance(diffs) ==
    IF \E i \in 1 .. Len(diffs) : ~IsFinite(diffs[i]) THEN Rat(0, 0)
    ELSE LET m == Len(diffs)
             mean == RatMul(RatSum(diffs), Rat(1, m))
             sq == [i \in 1 .. m |->
                      LET e == RatSub(diffs[i], mean) IN RatMul(e, e)]
         IN  RatMul(RatSum(sq), Rat(1, m))

\* a non-negative float given by its square: sqrt(sq)
TradingDaysPerYear == 252
Root(sq) == [sq |-> sq]

Volatility(daily_values) ==
    IF Len(daily_values) > 1
    THEN LET values == [i \in 1 .. Len(daily_values) |-> daily_values[i].value]
             diffs == PctChanges(values)
         IN  Root(RatMul(Variance(diffs), FromInt(TradingDaysPerYear)))
    ELSE Root(FromInt(0))

calculate_trading_metrics(strategy_id, symbol_id, days) ==
    LET sel == MetricsQuery(strategy_id, symbol_id, days)
    IN  IF sel = << >>
        THEN [trade_count |-> 0,
              total_value |-> 0,
              avg_trade_size |-> FromInt(0),
              metrics_period_days |-> days]
        ELSE LET trade_count == Len(sel)
                 total_value == SumSeq(TotalValues(sel))
                 daily_values == DailyValues(sel)
             IN  [trade_count |-> trade_count,
                  total_value |-> total_value,
                  avg_trade_size |-> IF trade_count > 0
                                     THEN Rat(total_value, trade_count)
                                     ELSE FromInt(0),
                  volatility |-> Volatility(daily_values),
                  metrics_period_days |-> days,
                  daily_values |-> daily_values]

(***************************************************************************)
(* Backend/analytics.py: analyze_strategy_performance.                     *)
(***************************************************************************)
\* db.query(StrategyDimension).first(), the filter on the id left out
FindAnyStrategy(strategy_id) ==
    IF strategies = << >> THEN None ELSE Some(Head(strategies))
\* db.query(StrategyDimension).filter(StrategyDimension.id == strategy_id).first()
FindStrategy(strategy_id) == First(strategies, "id", strategy_id)

\* ORDER BY timestamp of the rows of a query (rows of equal timestamp in key order)
RECURSIVE OrderByTimestamp(_)
OrderByTimestamp(rows) ==
    IF rows = << >> THEN << >>
    ELSE LET i == CHOOSE k \in 1 .. Len(rows) :
                    \A j \in 1 .. Len(rows) :
                        \/ rows[k].timestamp < rows[j].timestamp
                        \/ rows[k].timestamp = rows[j].timestamp /\ k <= j
         IN  <<rows[i]>> \o
             OrderByTimestamp([j \in 1 .. Len(rows) - 1 |->
                                 IF j < i THEN rows[j] ELSE rows[j + 1]])

\* the same query without the filter TradeFact.timestamp <= end_date
StrategyFrameNoEnd(strategy_id, days) ==
    LET start_date == now - TimeDelta(days)
        Keep(t) == /\ \E i \in 1 .. Len(symbols) : symbols[i].id = t.symbol_id
                   /\ t.strategy_id = strategy_id
                   /\ t.timestamp >= start_date
        kept == OrderByTimestamp(SelectSeq(trades, Keep))
    IN  [i \in 1 .. Len(kept) |->
            LET sym == First(symbols, "id", kept[i].symbol_id)[1]
            IN  [timestamp |-> kept[i].timestamp,
                 date |-> DateOf(kept[i].timestamp),
                 value |-> kept[i].total_value,
                 symbol |-> sym.symbol,
                 asset_class |-> sym.asset_class]]
\* the join of trade_facts to symbol_dim, filtered and ordered, as the DataFrame
StrategyFrame(strategy_id, days) ==
    LET end_date == now
        start_date == end_date - TimeDelta(days)
        Keep(t) == /\ \E i \in 1 .. Len(symbols) : symbols[i].id = t.symbol_id
                   /\ t.strategy_id = strategy_id
                   /\ t.timestamp >= start_date
                   /\ t.timestamp <= end_date
        kept == OrderByTimestamp(SelectSeq(trades, Keep))
    IN  [i \in 1 .. Len(kept) |->
            LET sym == First(symbols, "id", kept[i].symbol_id)[1]
            IN  [timestamp |-> kept[i].timestamp,
                 date |-> DateOf(kept[i].timestamp),
                 value |-> kept[i].total_value,
                 symbol |-> sym.symbol,
                 asset_class |-> sym.asset_class]]

FrameValues(df) == [i \in 1 .. Len(df) |-> df[i].value]

\* df.groupby('timestamp')['value'].sum().reset_index(): one row per instant
GroupByTimestamp(df) ==
    LET stamps == SortedAsc({df[i].timestamp : i \in 1 .. Len(df)})
    IN  [i \in 1 .. Len(stamps) |->
            [date |-> DateOf(stamps[i]),
             value |-> SumSeq(FrameValues(SelectSeq(df, LAMBDA r : r.timestamp = stamps[i])))]]
\* df.groupby('date')['value'].sum().reset_index(): one row per date, by date
GroupByDate(df) ==
    LET dates == SortedAsc({df[i].date : i \in 1 .. Len(df)})
    IN  [i \in 1 .. Len(dates) |->
            [date |-> dates[i],
             value |-> SumSeq(FrameValues(SelectSeq(df, LAMBDA r : r.date = dates[i])))]]

\* df.groupby(col)['value'].sum().reset_index() for a string column: one row per
\* key present, in string order of the keys (order lists every key, sorted)
GroupByKey(df, col, order) ==
    LET present == SelectSeq(order, LAMBDA k : \E i \in 1 .. Len(df) : df[i][col] = k)
    IN  [i \in 1 .. Len(present) |->
            [key |-> present[i],
             value |-> SumSeq(FrameValues(SelectSeq(df, LAMBDA r : r[col] = present[i])))]]

\* sort_values('value', ascending=False): rows of equal value keep their order
RECURSIVE SortValuesDesc(_)
SortValuesDesc(rows) ==
    IF rows = << >> THEN << >>
    ELSE LET i == CHOOSE k \in 1 .. Len(rows) :
                    \A j \in 1 .. Len(rows) :
                        \/ rows[k].value > rows[j].value
                        \/ rows[k].value = rows[j].value /\ k <= j
         IN  <<rows[i]>> \o
             SortValuesDesc([j \in 1 .. Len(rows) - 1 |->
                               IF j < i THEN rows[j] ELSE rows[j + 1]])

\* .tail(n)
TailN(rows, n) == SubSeq(rows, Len(rows) - Min(n, Len(rows)) + 1, Len(rows))
\* .head(n)
TopN == 10
HeadN(rows, n) == SubSeq(rows, 1, Min(n, Len(rows)))

\* (row.value / df['value'].sum()) * 100
Percentage(value, total) == RatMul(Rat(value, total), FromInt(100))

analyze_strategy_performance(strategy_id, days) ==
    LET strategy == FindStrategy(strategy_id)
    IN  IF strategy = None THEN [error |-> "Strategy not found"]
        ELSE
        LET df == StrategyFrame(strategy_id, days)
        IN  IF df = << >>
            THEN [strategy_name |-> strategy[1].name,
                  strategy_type |-> strategy[1].type,
                  risk_profile |-> strategy[1].risk_profile,
                  trade_count |-> 0,
                  performance_summary |-> [total_value |-> 0,
                                           daily_average |-> FromInt(0)],
                  daily_performance |-> << >>]
            ELSE
            LET daily_perf == GroupByDate(df)
                total == SumSeq(FrameValues(df))
                by_class == GroupByKey(df, "asset_class", SortedAssetClasses)
                by_symbol == HeadN(SortValuesDesc(
                                 GroupByKey(df, "symbol", SortedTickers)), TopN)
            IN  [strategy_name |-> strategy[1].name,
                 strategy_type |-> strategy[1].type,
                 risk_profile |-> strategy[1].risk_profile,
                 trade_count |-> Len(df),
                 performance_summary |->
                     [total_value |-> total,
                      daily_average |-> IF Len(daily_perf) > 0
                                        THEN Rat(total, Len(daily_perf))
                                        ELSE FromInt(0),
                      trade_count |-> Len(df),
                      unique_symbols |-> Cardinality({df[i].symbol : i \in 1 .. Len(df)})],
                 asset_class_breakdown |->
                     [i \in 1 .. Len(by_class) |->
                         [asset_class |-> by_class[i].key,
                          value |-> by_class[i].value,
                          percentage |-> Percentage(by_class[i].value, total)]],
                 top_symbols |->
                     [i \in 1 .. Len(by_symbol) |->
                         [symbol |-> by_symbol[i].key,
                          value |-> by_symbol[i].value,
                          percentage |-> Percentage(by_symbol[i].value, total)]],
                 daily_performance |->
                     [i \in 1 .. Len(daily_perf) |->
                         [date |-> IsoFormat(daily_perf[i].date),
                          value |-> daily_perf[i].value]]]

(***************************************************************************)
(* The CSV files of the model.                                             *)
(***************************************************************************)
CsvRow(ticker, trader, strategy, ts, q, p) ==
    [symbol |-> ticker, asset_class |-> CsvAssetClass(ticker), trader |-> trader,
     strategy |-> strategy, timestamp |-> ts, quantity |-> q, price |-> p]

CsvRows ==
    {CsvRow(k, t, s, ts, q, p) :
        k \in CsvTickers, t \in CsvTraders, s \in CsvStrategies,
        ts \in CsvTimestamps, q \in CsvQuantities, p \in CsvPrices}

\* the files of 1 .. maxLen rows drawn from rows
CsvFiles(rows, maxLen) == UNION {[1 .. n -> rows] : n \in 1 .. maxLen}

(***************************************************************************)
(* The caller: holds no result (call.op = "none") or the last one.         *)
(***************************************************************************)
NoCall == [op |-> "none"]
NoResult == [pending |-> TRUE]
Idle == call = NoCall

\* no run of load_market_data in progress
NoMarketRun == [pc |-> "idle", k |-> 0, symbolBase |-> 0, traderBase |-> 0,
                strategyBase |-> 0]

\* the runs of load_trading_data taken step by step: none started, nobody
\* holds the write lock of the database file
MaxRuns == 2
Runs == 1 .. MaxRuns
EmptyDb == [symbols |-> << >>, traders |-> << >>, strategies |-> << >>, trades |-> << >>]
IdleRun == [pc |-> "idle", stage |-> "symbol", rows |-> << >>, i |-> 0, symbol_id |-> 0,
            trader_id |-> 0, strategy_id |-> 0, added |-> << >>]
NoSessions == [writer |-> 0, work |-> EmptyDb, runs |-> [r \in Runs |-> IdleRun]]

Init ==
    /\ symbols = << >>
    /\ traders = << >>
    /\ strategies = << >>
    /\ trades = << >>
    /\ now = StartNow
    /\ call = NoCall
    /\ result = NoResult
    /\ market = NoMarketRun
    /\ sessions = NoSessions

\* datetime.now() advances
Tick ==
    /\ now < MaxNow
    /\ now' = now + 1
    /\ UNCHANGED <<symbols, traders, strategies, trades, call, result, ingestVars>>

\* the caller drops the result it holds
Return ==
    /\ ~Idle
    /\ call' = NoCall
    /\ result' = NoResult
    /\ UNCHANGED <<symbols, traders, strategies, trades, now, ingestVars>>

\* the arguments a caller supplies
QueryIds == {0, 1, 2}
OptQueryIds == {None} \cup {Some(i) : i \in QueryIds}
WindowDays == {0, 1, 2}

\* a call that deletes the rows it has read
MetricsCallConsuming(strategyIds, symbolIds, windows) ==
    /\ Idle
    /\ \E strategy_id \in strategyIds, symbol_id \in symbolIds, days \in windows :
          /\ call' = [op |-> "calculate_trading_metrics", strategy_id |-> strategy_id,
                      symbol_id |-> symbol_id, days |-> days, now |-> now]
          /\ result' = calculate_trading_metrics(strategy_id, symbol_id, days)
          /\ trades' = SelectSeq(trades,
                           LAMBDA t : \A i \in 1 .. Len(MetricsQuery(strategy_id, symbol_id, days)) :
                                         MetricsQuery(strategy_id, symbol_id, days)[i] /= t)
    /\ UNCHANGED <<symbols, traders, strategies, now, ingestVars>>

MetricsCall(strategyIds, symbolIds, windows) ==
    /\ Idle
    /\ \E strategy_id \in strategyIds, symbol_id \in symbolIds, days \in windows :
          /\ call' = [op |-> "calculate_trading_metrics", strategy_id |-> strategy_id,
                      symbol_id |-> symbol_id, days |-> days, now |-> now]
          /\ result' = calculate_trading_metrics(strategy_id, symbol_id, days)
    /\ UNCHANGED <<symbols, traders, strategies, trades, now, ingestVars>>

PerformanceCall(strategyIds, windows) ==
    /\ Idle
    /\ \E strategy_id \in strategyIds, days \in windows :
          /\ call' = [op |-> "analyze_strategy_performance",
                      strategy_id |-> strategy_id, days |-> days, now |-> now]
          /\ result' = analyze_strategy_performance(strategy_id, days)
    /\ UNCHANGED <<symbols, traders, strategies, trades, now, ingestVars>>

(***************************************************************************)
(* Backend/etl.py: add_sample_trading_data.                                *)
(*                                                                         *)
(* A quantity is counted in fractions of a share: QuantityPerShare units   *)
(* make one share, so that a whole number of shares is a multiple of it.   *)
(***************************************************************************)
QuantityPerShare == 2

\* the rows inserted, their keys left unset
InsertAllNoKey(table, rows) ==
    table \o [i \in 1 .. Len(rows) |-> rows[i] @@ ("id" :> 0)]
\* session.add_all(rows); session.commit(): the rows get the next keys
InsertAll(table, rows) ==
    table \o [i \in 1 .. Len(rows) |-> rows[i] @@ ("id" :> (Len(table) + i))]

SampleSymbols ==
    <<[symbol |-> "AAPL", asset_class |-> "Equity", sector |-> "Technology"],
      [symbol |-> "MSFT", asset_class |-> "Equity", sector |-> "Technology"],
      [symbol |-> "BTC", asset_class |-> "Crypto", sector |-> "Currency"],
      [symbol |-> "EUR/USD", asset_class |-> "Forex", sector |-> "Currency"]>>
SampleTraders ==
    <<[name |-> "John Smith", team |-> "Alpha"],
      [name |-> "Jane Doe", team |-> "Beta"]>>
SampleStrategies ==
    <<[name |-> "Momentum", type |-> "Technical", risk_profile |-> "High"],
      [name |-> "Value", type |-> "Fundamental", risk_profile |-> "Medium"],
      [name |-> "Market Neutral", type |-> "Quantitative", risk_profile |-> "Low"]>>

\* timedelta(days=30) before now
SampleSpanDays == 30
\* iterations of the loop that creates the sample trades (range(100) in the
\* code; the model runs it MaxSampleTrades times)
MaxSampleTrades == 2

\* what one iteration draws: random.choice of a symbol, a trader and a
\* strategy, the offset of the timestamp, the price and the quantity
SamplePicks ==
    [symbol : 1 .. Len(SampleSymbols), trader : 1 .. Len(SampleTraders),
     strategy : 1 .. Len(SampleStrategies), offset : {TimeDelta(1)},
     price : {10}, quantity : {3 * QuantityPerShare}]

add_sample_trading_data(picks) ==
    IF Len(trades) > 0
    THEN UNCHANGED dbVars
    ELSE LET symTable == InsertAll(symbols, SampleSymbols)
             traderTable == InsertAll(traders, SampleTraders)
             stratTable == InsertAll(strategies, SampleStrategies)
             start_date == now - TimeDelta(SampleSpanDays)
         IN  /\ symbols' = symTable
             /\ traders' = traderTable
             /\ strategies' = stratTable
             /\ trades' = trades \o
                    [i \in 1 .. Len(picks) |->
                        [id |-> Len(trades) + i,
                         timestamp |-> start_date + picks[i].offset,
                         quantity |-> picks[i].quantity,
                         price |-> picks[i].price,
                         total_value |-> picks[i].price * picks[i].quantity,
                         symbol_id |-> symTable[Len(symbols) + picks[i].symbol].id,
                         trader_id |-> traderTable[Len(traders) + picks[i].trader].id,
                         strategy_id |-> stratTable[Len(strategies) + picks[i].strategy].id]]

(***************************************************************************)
(* load_market_data.py: load_market_data, taken commit by commit: the      *)
(* seeding of the dimensions, then one step per symbol downloaded.         *)
(***************************************************************************)
\* stock_data, then crypto_data, as the Symbol rows built from them
MarketSymbols ==
    <<[symbol |-> "AAPL", asset_class |-> "Equity", sector |-> "Technology"],
      [symbol |-> "MSFT", asset_class |-> "Equity", sector |-> "Technology"],
      [symbol |-> "GOOGL", asset_class |-> "Equity", sector |-> "Technology"],
      [symbol |-> "AMZN", asset_class |-> "Equity", sector |-> "Consumer Cyclical"],
      [symbol |-> "TSLA", asset_class |-> "Equity", sector |-> "Automotive"],
      [symbol |-> "BTC-USD", asset_class |-> "Crypto", sector |-> "Cryptocurrency"],
      [symbol |-> "ETH-USD", asset_class |-> "Crypto", sector |-> "Cryptocurrency"]>>
MarketTraders ==
    <<[name |-> "John Smith", team |-> "Alpha Team"],
      [name |-> "Jane Doe", team |-> "Beta Team"],
      [name |-> "David Johnson", team |-> "Alpha Team"],
      [name |-> "Sarah Williams", team |-> "Gamma Team"]>>
MarketStrategies ==
    <<[name |-> "Momentum Trading", type |-> "Technical", risk_profile |-> "High"],
      [name |-> "Value Investing", type |-> "Fundamental", risk_profile |-> "Medium"],
      [name |-> "Trend Following", type |-> "Technical", risk_profile |-> "Medium"],
      [name |-> "Mean Reversion", type |-> "Quantitative", risk_profile |-> "Medium"],
      [name |-> "Market Neutral", type |-> "Quantitative", risk_profile |-> "Low"]>>

\* rows of symbol_dim the seeding loaders may fill
MaxSymbolRows == 14
\* rows of trade_facts, ingestion specifications
MaxIngestTrades == 3
\* days of data one download returns, and trades created for one day
\* (random.randint(1, 5) in the code)
MaxMarketDays == 2
MaxDayTrades == 1

\* what the creation of one trade draws: random.choice of a trader and of a
\* strategy (the first or the last of each list), and the price
MarketPicks ==
    {[trader |-> 1, strategy |-> 1, price |-> 3],
     [trader |-> Len(MarketTraders), strategy |-> Len(MarketStrategies), price |-> 3]}

\* random.uniform(0.01, 2.0) for crypto, random.randint(10, 100) for the rest
MarketQuantity(asset_class) ==
    IF asset_class = "Crypto" THEN 1 ELSE 10 * QuantityPerShare

\* what yf.download and the processing of its rows come to, for one symbol:
\* the download raises, returns no data, or returns days of data, each with
\* its trades; raises: the processing of the last day raises before its commit
MarketDays ==
    UNION {[1 .. n -> UNION {[1 .. m -> MarketPicks] : m \in 1 .. MaxDayTrades}] :
              n \in 1 .. MaxMarketDays}
DownloadOutcomes ==
    {[kind |-> "error", days |-> << >>, raises |-> FALSE],
     [kind |-> "empty", days |-> << >>, raises |-> FALSE]}
    \cup [kind : {"data"}, days : MarketDays, raises : BOOLEAN]

\* the days whose commit is reached
CommittedDays(outcome) ==
    IF outcome.raises THEN SubSeq(outcome.days, 1, Len(outcome.days) - 1)
    ELSE outcome.days

\* the same, the quantity stored cut down to whole shares
RECURSIVE MarketTradesWholeShares(_, _, _, _)
MarketTradesWholeShares(facts, symbol, days, run) ==
    IF days = << >> THEN facts
    ELSE LET day == Head(days)
             added == [j \in 1 .. Len(day) |->
                         LET quantity == MarketQuantity(symbol.asset_class)
                         IN  [id |-> Len(facts) + j,
                              timestamp |-> now - TimeDelta(Len(days)),
                              quantity |-> (quantity \div QuantityPerShare) * QuantityPerShare,
                              price |-> day[j].price,
                              total_value |-> day[j].price * quantity,
                              symbol_id |-> symbol.id,
                              trader_id |-> traders[run.traderBase + day[j].trader].id,
                              strategy_id |->
                                  strategies[run.strategyBase + day[j].strategy].id]]
         IN  MarketTradesWholeShares(facts \o added, symbol, Tail(days), run)
\* the trades of the days of one symbol, appended day by day
RECURSIVE MarketTrades(_, _, _, _)
MarketTrades(facts, symbol, days, run) ==
    IF days = << >> THEN facts
    ELSE LET day == Head(days)
             added == [j \in 1 .. Len(day) |->
                         LET quantity == MarketQuantity(symbol.asset_class)
                         IN  [id |-> Len(facts) + j,
                              timestamp |-> now - TimeDelta(Len(days)),
                              quantity |-> quantity,
                              price |-> day[j].price,
                              total_value |-> day[j].price * quantity,
                              symbol_id |-> symbol.id,
                              trader_id |-> traders[run.traderBase + day[j].trader].id,
                              strategy_id |->
                                  strategies[run.strategyBase + day[j].strategy].id]]
         IN  MarketTrades(facts \o added, symbol, Tail(days), run)

NoIngestRun ==
    /\ market = NoMarketRun
    /\ \A r \in Runs : sessions.runs[r].pc \in {"idle", "done", "failed"}

\* from the start to the commit of the dimensions (or the early return)
MarketStart ==
    /\ Idle
    /\ NoIngestRun
    /\ Len(symbols) + Len(MarketSymbols) <= MaxSymbolRows
    /\ IF Len(trades) > 0
       THEN UNCHANGED <<dbVars, market>>
       ELSE /\ symbols' = InsertAll(symbols, MarketSymbols)
            /\ traders' = InsertAll(traders, MarketTraders)
            /\ strategies' = InsertAll(strategies, MarketStrategies)
            /\ market' = [pc |-> "download", k |-> 1, symbolBase |-> Len(symbols),
                          traderBase |-> Len(traders),
                          strategyBase |-> Len(strategies)]
            /\ UNCHANGED trades
    /\ UNCHANGED <<now, call, result, sessions>>

\* one iteration of `for symbol in symbols`; session.close() after the last
MarketSymbol ==
    /\ market.pc = "download"
    /\ \E outcome \in DownloadOutcomes :
          LET symbol == symbols[market.symbolBase + market.k]
              days == CommittedDays(outcome)
          IN  /\ Len(trades) + Len(days) * MaxDayTrades <= MaxIngestTrades
              /\ trades' = MarketTrades(trades, symbol, days, market)
    /\ market' = IF market.k = Len(MarketSymbols) THEN NoMarketRun
                  ELSE [market EXCEPT !.k = market.k + 1]
    /\ UNCHANGED <<symbols, traders, strategies, now, call, result, sessions>>

(***************************************************************************)
(* Backend/etl.py: load_trading_data, taken statement by statement, for    *)
(* runs that overlap.  Each run has its own session.  A query reads the    *)
(* committed tables and what its own session has flushed; the first flush  *)
(* of a session takes the write lock of the database file and the commit   *)
(* releases it; a session that finds the file locked waits, or gives up    *)
(* with "database is locked".                                              *)
(***************************************************************************)
\* what the session of run r reads
View(r) == IF sessions.writer = r THEN sessions.work ELSE DB

TableOf(db, stage) ==
    IF stage = "symbol" THEN db.symbols
    ELSE IF stage = "trader" THEN db.traders ELSE db.strategies
KeyColumn(stage) == IF stage = "symbol" THEN "symbol" ELSE "name"
KeyOf(row, stage) ==
    IF stage = "symbol" THEN row.symbol
    ELSE IF stage = "trader" THEN row.trader ELSE row.strategy

\* the dimension object built when the lookup found none
NewDimension(row, stage, id) ==
    IF stage = "symbol"
    THEN [id |-> id, symbol |-> row.symbol,
          asset_class |-> Get(row, "asset_class", "Unknown"),
          sector |-> Get(row, "sector", "Unknown")]
    ELSE IF stage = "trader"
    THEN [id |-> id, name |-> row.trader, team |-> Get(row, "team", "Unknown")]
    ELSE [id |-> id, name |-> row.strategy,
          type |-> Get(row, "strategy_type", "Unknown"),
          risk_profile |-> Get(row, "risk_profile", "Medium")]

\* the run once the dimension of its stage is known: on to the next lookup,
\* or, after the strategy, session.add(trade) and on to the next row
Resolved(run, id) ==
    IF run.stage = "symbol" THEN [run EXCEPT !.symbol_id = id, !.pc = "lookup",
                                             !.stage = "trader"]
    ELSE IF run.stage = "trader" THEN [run EXCEPT !.trader_id = id, !.pc = "lookup",
                                                  !.stage = "strategy"]
    ELSE LET row == run.rows[run.i]
             trade == [timestamp |-> row.timestamp,
                       quantity |-> row.quantity,
                       price |-> row.price,
                       total_value |-> row.quantity * row.price,
                       symbol_id |-> run.symbol_id,
                       trader_id |-> run.trader_id,
                       strategy_id |-> id]
         IN  [run EXCEPT !.strategy_id = id,
                         !.added = Append(@, trade),
                         !.i = @ + 1,
                         !.stage = "symbol",
                         !.pc = IF run.i = Len(run.rows) THEN "commit" ELSE "lookup"]

\* the files of the overlapping runs: rows of one ticker, trader and strategy
ConcurrentRows ==
    {CsvRow("AAPL", "John Smith", "Momentum", StartNow, QuantityPerShare, 2)}

\* df = pd.read_csv(filepath); session = SessionLocal()
RunStart(r) ==
    /\ Idle
    /\ market = NoMarketRun
    /\ sessions.runs[r].pc = "idle"
    /\ \E rows \in CsvFiles(ConcurrentRows, MaxRows) :
          sessions' = [sessions EXCEPT !.runs[r] =
                          [IdleRun EXCEPT !.pc = "lookup", !.rows = rows, !.i = 1]]
    /\ UNCHANGED <<dbVars, now, call, result, market>>

\* session.query(...).filter_by(...).first()
RunLookup(r) ==
    LET run == sessions.runs[r]
        found == First(TableOf(View(r), run.stage), KeyColumn(run.stage),
                       KeyOf(run.rows[run.i], run.stage))
    IN  /\ run.pc = "lookup"
        /\ sessions' = [sessions EXCEPT !.runs[r] =
                           IF found = None THEN [run EXCEPT !.pc = "add"]
                           ELSE Resolved(run, found[1].id)]
        /\ UNCHANGED <<dbVars, now, call, result, market>>

\* session.add(...); session.flush(): the INSERT, under the write lock
RunFlush(r) ==
    LET run == sessions.runs[r]
        base == View(r)
        id == Len(TableOf(base, run.stage)) + 1
        added == NewDimension(run.rows[run.i], run.stage, id)
    IN  /\ run.pc = "add"
        /\ sessions.writer \in {0, r}
        /\ sessions' =
              [writer |-> r,
               work |-> IF run.stage = "symbol"
                        THEN [base EXCEPT !.symbols = Append(@, added)]
                        ELSE IF run.stage = "trader"
                        THEN [base EXCEPT !.traders = Append(@, added)]
                        ELSE [base EXCEPT !.strategies = Append(@, added)],
               runs |-> [sessions.runs EXCEPT ![r] = Resolved(run, id)]]
        /\ UNCHANGED <<dbVars, now, call, result, market>>

\* a flush or a commit that finds the file locked by another session until
\* its timeout: OperationalError, the run ends without a commit
RunLocked(r) ==
    /\ sessions.runs[r].pc \in {"add", "commit"}
    /\ sessions.writer \notin {0, r}
    /\ sessions' = [sessions EXCEPT !.runs[r] = [IdleRun EXCEPT !.pc = "failed"]]
    /\ UNCHANGED <<dbVars, now, call, result, market>>

\* session.commit(): the trades are inserted, all becomes visible;
\* session.close()
RunCommit(r) ==
    LET run == sessions.runs[r]
        base == View(r)
        facts == base.trades \o
                 [j \in 1 .. Len(run.added) |->
                     run.added[j] @@ ("id" :> (Len(base.trades) + j))]
    IN  /\ run.pc = "commit"
        /\ sessions.writer \in {0, r}
        /\ symbols' = base.symbols
        /\ traders' = base.traders
        /\ strategies' = base.strategies
        /\ trades' = facts
        /\ sessions' = [writer |-> 0, work |-> EmptyDb,
                        runs |-> [sessions.runs EXCEPT
                                     ![r] = [IdleRun EXCEPT !.pc = "done"]]]
        /\ UNCHANGED <<now, call, result, market>>

(***************************************************************************)
(* Spec: files over two tickers and two strategies, every filter, at one   *)
(* instant of the clock.                                                   *)
(***************************************************************************)
Load ==
    /\ Idle
    /\ \E rows \in CsvFiles(CsvRows, Min(MaxRows, MaxTrades - Len(trades))) :
          load_trading_data(rows)

CallMetrics == MetricsCall(OptQueryIds, OptQueryIds, WindowDays)

CallPerformance == PerformanceCall(QueryIds, WindowDays)

Next == Load \/ Return \/ CallMetrics \/ CallPerformance

Spec == Init /\ [][Next]_vars

(***************************************************************************)
(* SpecSeries: longer files of one ticker and one strategy, spread over    *)
(* several days, for the daily series and the volatility; the clock runs.  *)
(***************************************************************************)
SeriesTimestamps == 0 .. 5
SeriesQuantities == {0, 1, 2}
SeriesRows ==
    {CsvRow("AAPL", "John Smith", "Momentum", ts, q, p) :
        ts \in SeriesTimestamps, q \in SeriesQuantities, p \in CsvPrices}

LoadSeries ==
    /\ Idle
    /\ \E rows \in CsvFiles(SeriesRows, Min(MaxRows, MaxSeriesTrades - Len(trades))) :
          load_trading_data(rows)

CallSeriesMetrics == MetricsCall({None}, {None}, WindowDays)

NextSeries == LoadSeries \/ Tick \/ Return \/ CallSeriesMetrics

SpecSeries == Init /\ [][NextSeries]_vars

(***************************************************************************)
(* SpecTop: one strategy trading more tickers than the top-symbols list    *)
(* holds; the k-th file holds one trade of the k-th ticker.                *)
(***************************************************************************)
TopQuantities == {1, 2}
TopRows(k) ==
    {CsvRow(SortedTickers[k], "John Smith", "Momentum", StartNow, q, p) :
        q \in TopQuantities, p \in CsvPrices}

LoadTop ==
    /\ Idle
    /\ Len(trades) < TopN + MaxTopExtra
    /\ \E rows \in CsvFiles(TopRows(Len(symbols) + 1), 1) : load_trading_data(rows)

CallTopPerformance == PerformanceCall({1}, {1})

NextTop == LoadTop \/ Return \/ CallTopPerformance

SpecTop == Init /\ [][NextTop]_vars

(***************************************************************************)
(* SpecIngest: the three ingestion paths, one invocation after the other:  *)
(* CSV files, the sample data, the market data.                            *)
(***************************************************************************)
IngestTickers == {"AAPL", "XOM"}
IngestRows ==
    {CsvRow(k, "John Smith", "Momentum", StartNow, QuantityPerShare, 2) :
        k \in IngestTickers}

LoadIngest ==
    /\ Idle
    /\ NoIngestRun
    /\ \E rows \in CsvFiles(IngestRows, Min(MaxRows, MaxIngestTrades - Len(trades))) :
          load_trading_data(rows)

AddSample ==
    /\ Idle
    /\ NoIngestRun
    /\ Len(symbols) + Len(SampleSymbols) <= MaxSymbolRows
    /\ \E picks \in (IF Len(trades) > 0 THEN {<< >>}
                      ELSE [1 .. MaxSampleTrades -> SamplePicks]) :
          add_sample_trading_data(picks)
    /\ UNCHANGED <<now, call, result, ingestVars>>

NextIngest == LoadIngest \/ AddSample \/ MarketStart \/ MarketSymbol

SpecIngest == Init /\ [][NextIngest]_vars

(***************************************************************************)
(* SpecMarket: invocations of load_market_data alone, one after the other. *)
(***************************************************************************)
NextMarket == MarketStart \/ MarketSymbol

SpecMarket == Init /\ [][NextMarket]_vars

(***************************************************************************)
(* SpecConcurrent: runs of load_trading_data that overlap, over files that *)
(* hold the same ticker, trader and strategy.                              *)
(***************************************************************************)
StartRun == \E r \in Runs : RunStart(r)
Lookup == \E r \in Runs : RunLookup(r)
Flush == \E r \in Runs : RunFlush(r)
Locked == \E r \in Runs : RunLocked(r)
Commit == \E r \in Runs : RunCommit(r)

NextConcurrent == StartRun \/ Lookup \/ Flush \/ Locked \/ Commit

SpecConcurrent == Init /\ [][NextConcurrent]_vars

(***************************************************************************)
(* What the properties read: the call the caller made and, from the tables *)
(* alone, the trades that call is specified to aggregate.                  *)
(***************************************************************************)
IsMetrics == call.op = "calculate_trading_metrics"
IsPerformance == call.op = "analyze_strategy_performance"

\* trades (by position) with timestamp >= now - windowDays that match every
\* supplied filter; an absent filter constrains nothing
Matching ==
    {i \in 1 .. Len(trades) :
        /\ trades[i].timestamp >= call.now - call.days * TicksPerDay
        /\ (call.strategy_id /= None => trades[i].strategy_id = call.strategy_id[1])
        /\ (call.symbol_id /= None => trades[i].symbol_id = call.symbol_id[1])}

RECURSIVE ValueOf(_)
ValueOf(S) ==
    IF S = {} THEN 0
    ELSE LET i == CHOOSE k \in S : TRUE IN trades[i].total_value + ValueOf(S \ {i})

MatchingDates == {DateOf(trades[i].timestamp) : i \in Matching}
MatchingOn(d) == {i \in Matching : DateOf(trades[i].timestamp) = d}

\* the date an ISO string names
FromIso(str) == str.dd[1] * 10 + str.dd[2] - EpochDay

HasSeries == IsMetrics /\ "daily_values" \in DOMAIN result

(***************************************************************************)
(* C1: when no trade matches the filter, calculate_trading_metrics returns *)
(* trade count 0, total value 0, average trade size 0, the requested       *)
(* window length and a daily series that is present and empty.             *)
(***************************************************************************)
C1_EmptyMetricsHaveEmptySeries ==
    (IsMetrics /\ Matching = {}) =>
        /\ result.trade_count = 0
        /\ result.total_value = 0
        /\ result.avg_trade_size = FromInt(0)
        /\ result.metrics_period_days = call.days
        /\ "daily_values" \in DOMAIN result
        /\ result.daily_values = << >>

(***************************************************************************)
(* C2: for a non-empty selection, the values of the daily series add up to *)
(* the returned total value.                                               *)
(***************************************************************************)
C2_DailyRollupConservesTotal ==
    (HasSeries /\ Matching /= {}) =>
        SumSeq([i \in 1 .. Len(result.daily_values) |-> result.daily_values[i].value])
            = result.total_value

\* a series of two days, one of them with two trades, of non-zero total
C2_Witness ==
    /\ HasSeries
    /\ Matching /= {}
    /\ Len(result.daily_values) >= 2
    /\ \E i \in 1 .. Len(result.daily_values) : result.daily_values[i].trade_count >= 2
    /\ result.total_value > 0
    /\ \A i \in 1 .. Len(result.daily_values) : result.daily_values[i].value > 0

(***************************************************************************)
(* C3: analyze_strategy_performance with a strategyId that matches no      *)
(* Strategy row yields the "Strategy not found" outcome, which carries no  *)
(* performance field; for a strategyId that matches a row (with or without *)
(* trades) the outcome carries the performance fields and no error.        *)
(***************************************************************************)
StrategyExists(id) == \E i \in 1 .. Len(strategies) : strategies[i].id = id

C3_UnknownStrategyIsNotFound ==
    IsPerformance =>
        IF StrategyExists(call.strategy_id)
        THEN /\ "error" \notin DOMAIN result
             /\ {"trade_count", "performance_summary", "daily_performance"}
                    \subseteq DOMAIN result
        ELSE /\ result = [error |-> "Strategy not found"]
             /\ DOMAIN result = {"error"}

\* an unknown id asked of a database that holds strategies and trades
C3_Witness ==
    /\ IsPerformance
    /\ ~StrategyExists(call.strategy_id)
    /\ strategies /= << >>
    /\ trades /= << >>
    /\ result = [error |-> "Strategy not found"]

(***************************************************************************)
(* C4: when the matching trades span at least two dates and the summed     *)
(* value of a day other than the last is 0, calculate_trading_metrics      *)
(* still returns a defined volatility.                                     *)
(***************************************************************************)
LastMatchingDate == CHOOSE d \in MatchingDates : \A e \in MatchingDates : e <= d

C4_ZeroDayVolatilityDefined ==
    (/\ IsMetrics
     /\ Cardinality(MatchingDates) >= 2
     /\ \E d \in MatchingDates : d /= LastMatchingDate /\ ValueOf(MatchingOn(d)) = 0)
    => /\ "volatility" \in DOMAIN result
       /\ IsFinite(result.volatility.sq)

(***************************************************************************)
(* C5: for a non-empty selection the volatility returned is 0 when the     *)
(* matching trades fall on fewer than two dates, and is a defined          *)
(* non-negative number otherwise.                                          *)
(***************************************************************************)
C5_VolatilityZeroOrNonNegative ==
    (IsMetrics /\ Matching /= {}) =>
        /\ "volatility" \in DOMAIN result
        /\ IF Cardinality(MatchingDates) < 2
           THEN result.volatility.sq = FromInt(0)
           ELSE /\ IsFinite(result.volatility.sq)
                /\ result.volatility.sq.num >= 0
                /\ result.volatility.sq.den > 0

(***************************************************************************)
(* C6: calculate_trading_metrics aggregates exactly the trades inside the  *)
(* window that match every supplied id, whatever its value: the count and  *)
(* the total returned are those of that set.                               *)
(***************************************************************************)
C6_FiltersAreConjunctive ==
    IsMetrics =>
        /\ result.trade_count = Cardinality(Matching)
        /\ result.total_value = ValueOf(Matching)

(***************************************************************************)
(* C7: for a non-empty selection the daily series has exactly one entry    *)
(* per date of a matching trade and none for another date, ascends         *)
(* strictly by date, and each entry counts the matching trades of its      *)
(* date, so that the counts add up to the trade count.                     *)
(***************************************************************************)
C7_DailySeriesPerDateSorted ==
    (HasSeries /\ Matching /= {}) =>
        LET dv == result.daily_values
        IN  /\ {FromIso(dv[i].date) : i \in 1 .. Len(dv)} = MatchingDates
            /\ Len(dv) = Cardinality(MatchingDates)
            /\ \A i \in 1 .. Len(dv) - 1 : FromIso(dv[i].date) < FromIso(dv[i + 1].date)
            /\ \A i \in 1 .. Len(dv) :
                  dv[i].trade_count = Cardinality(MatchingOn(FromIso(dv[i].date)))
            /\ SumSeq([i \in 1 .. Len(dv) |-> dv[i].trade_count]) = result.trade_count

\* two days, the later one recorded first, one of them with two trades
C7_Witness ==
    /\ HasSeries
    /\ Len(result.daily_values) >= 2
    /\ \E i \in 1 .. Len(result.daily_values) : result.daily_values[i].trade_count >= 2
    /\ \E i, j \in Matching :
          i < j /\ DateOf(trades[i].timestamp) > DateOf(trades[j].timestamp)

(***************************************************************************)
(* C8: the top-symbols list of analyze_strategy_performance has at most 10 *)
(* entries, in non-increasing order of summed value, and no symbol left    *)
(* out of it has a greater summed value than a symbol in it.               *)
(***************************************************************************)
\* the trades of the strategy inside [now - windowDays, now]
PerfMatching ==
    {i \in 1 .. Len(trades) :
        /\ trades[i].strategy_id = call.strategy_id
        /\ trades[i].timestamp >= call.now - call.days * TicksPerDay
        /\ trades[i].timestamp <= call.now}
TickerOf(i) ==
    LET k == CHOOSE k \in 1 .. Len(symbols) : symbols[k].id = trades[i].symbol_id
    IN  symbols[k].symbol
PerfTickers == {TickerOf(i) : i \in PerfMatching}
TickerTotal(ticker) == ValueOf({i \in PerfMatching : TickerOf(i) = ticker})

HasTopSymbols == IsPerformance /\ "top_symbols" \in DOMAIN result

C8_TopSymbolsBounded ==
    HasTopSymbols =>
        LET top == result.top_symbols
            listed == {top[i].symbol : i \in 1 .. Len(top)}
        IN  /\ Len(top) <= 10
            /\ listed \subseteq PerfTickers
            /\ \A i \in 1 .. Len(top) : top[i].value = TickerTotal(top[i].symbol)
            /\ \A i \in 1 .. Len(top) - 1 : top[i].value >= top[i + 1].value
            /\ \A out \in PerfTickers \ listed :
                  \A i \in 1 .. Len(top) : TickerTotal(out) <= top[i].value

\* more than 10 symbols traded, of unequal totals: one is cut from the list
C8_Witness ==
    /\ HasTopSymbols
    /\ Cardinality(PerfTickers) > 10
    /\ Len(result.top_symbols) = 10
    /\ result.top_symbols[1].value > result.top_symbols[10].value
    /\ \E out \in PerfTickers :
          /\ \A i \in 1 .. 10 : result.top_symbols[i].symbol /= out
          /\ TickerTotal(out) < result.top_symbols[1].value

(***************************************************************************)
(* C9: a non-empty asset-class breakdown has percentages that add up to    *)
(* 100: the group values add up to the grand total and each percentage is  *)
(* groupSum / grandTotal * 100.                                            *)
(***************************************************************************)
HasBreakdown ==
    /\ IsPerformance
    /\ "asset_class_breakdown" \in DOMAIN result
    /\ result.asset_class_breakdown /= << >>

C9_BreakdownPercentagesSumTo100 ==
    HasBreakdown =>
        LET b == result.asset_class_breakdown
            total == result.performance_summary.total_value
        IN  /\ SumSeq([i \in 1 .. Len(b) |-> b[i].value]) = total
            /\ \A i \in 1 .. Len(b) :
                  /\ IsFinite(b[i].percentage)
                  /\ b[i].percentage.num * total = b[i].value * 100 * b[i].percentage.den
            /\ RatSum([i \in 1 .. Len(b) |-> b[i].percentage]) = FromInt(100)

(***************************************************************************)
(* C10: past the empty-result return of analyze_strategy_performance (at   *)
(* least one trade matched) the grand total, the denominator of every      *)
(* percentage, is greater than 0.                                          *)
(***************************************************************************)
C10_GrandTotalPositive ==
    (IsPerformance /\ "trade_count" \in DOMAIN result /\ result.trade_count > 0) =>
        result.performance_summary.total_value > 0

(***************************************************************************)
(* C11: for an existing strategy with no trade of its own in the window,   *)
(* analyze_strategy_performance returns the strategy's name, type and risk *)
(* profile with trade count 0, total value 0, daily average 0, an empty    *)
(* daily performance series, and both breakdown sections present and       *)
(* empty.                                                                  *)
(***************************************************************************)
StrategyRow(id) ==
    strategies[CHOOSE i \in 1 .. Len(strategies) : strategies[i].id = id]

C11_EmptyPerformanceHasEmptyBreakdowns ==
    (IsPerformance /\ StrategyExists(call.strategy_id) /\ PerfMatching = {}) =>
        /\ "error" \notin DOMAIN result
        /\ result.strategy_name = StrategyRow(call.strategy_id).name
        /\ result.strategy_type = StrategyRow(call.strategy_id).type
        /\ result.risk_profile = StrategyRow(call.strategy_id).risk_profile
        /\ result.trade_count = 0
        /\ result.performance_summary.total_value = 0
        /\ result.performance_summary.daily_average = FromInt(0)
        /\ result.daily_performance = << >>
        /\ "asset_class_breakdown" \in DOMAIN result
        /\ result.asset_class_breakdown = << >>
        /\ "top_symbols" \in DOMAIN result
        /\ result.top_symbols = << >>

\* the part of C11 that the empty return does carry
C11_EmptyPerformanceZeroed ==
    (IsPerformance /\ StrategyExists(call.strategy_id) /\ PerfMatching = {}) =>
        /\ "error" \notin DOMAIN result
        /\ result.strategy_name = StrategyRow(call.strategy_id).name
        /\ result.strategy_type = StrategyRow(call.strategy_id).type
        /\ result.risk_profile = StrategyRow(call.strategy_id).risk_profile
        /\ result.trade_count = 0
        /\ result.performance_summary.total_value = 0
        /\ result.performance_summary.daily_average = FromInt(0)
        /\ result.daily_performance = << >>

(***************************************************************************)
(* C12: for a non-empty matched trade set the performance summary reports  *)
(* total_value as the sum of total_value over the matched trades,          *)
(* daily_average as that total divided by the number of distinct dates     *)
(* with trades, trade_count as the number of matched trades (the same as   *)
(* the top-level trade_count) and unique_symbols as the number of distinct *)
(* tickers among the matched trades.                                       *)
(***************************************************************************)
PerfDates == {DateOf(trades[i].timestamp) : i \in PerfMatching}

C12_PerformanceSummary ==
    (IsPerformance /\ StrategyExists(call.strategy_id) /\ PerfMatching /= {}) =>
        /\ "performance_summary" \in DOMAIN result
        /\ result.performance_summary.total_value = ValueOf(PerfMatching)
        /\ result.performance_summary.daily_average
               = Rat(ValueOf(PerfMatching), Cardinality(PerfDates))
        /\ result.performance_summary.trade_count = Cardinality(PerfMatching)
        /\ result.trade_count = Cardinality(PerfMatching)
        /\ result.performance_summary.unique_symbols = Cardinality(PerfTickers)

\* two matched trades of two tickers at two instants of one day, of non-zero total
C12_Witness ==
    /\ IsPerformance
    /\ "performance_summary" \in DOMAIN result
    /\ Cardinality(PerfMatching) = 2
    /\ Cardinality(PerfDates) = 1
    /\ Cardinality({trades[i].timestamp : i \in PerfMatching}) = 2
    /\ Cardinality(PerfTickers) = 2
    /\ result.performance_summary.total_value > 0
    /\ result.performance_summary.unique_symbols = 2

(***************************************************************************)
(* C13: analyze_strategy_performance aggregates exactly the trades of the  *)
(* given strategy whose timestamp lies in [now - windowDays, now]: the     *)
(* join to Symbol drops none of them, and no trade outside the window or   *)
(* of another strategy is counted.                                         *)
(***************************************************************************)
C13_WindowAndJoinSelection ==
    (IsPerformance /\ StrategyExists(call.strategy_id)) =>
        /\ \A i \in PerfMatching :
              Cardinality({k \in 1 .. Len(symbols) : symbols[k].id = trades[i].symbol_id}) = 1
        /\ result.trade_count = Cardinality(PerfMatching)
        /\ result.performance_summary.total_value = ValueOf(PerfMatching)
        /\ {FromIso(result.daily_performance[i].date) :
                i \in 1 .. Len(result.daily_performance)} = PerfDates
        /\ SumSeq([i \in 1 .. Len(result.daily_performance) |->
                      result.daily_performance[i].value]) = ValueOf(PerfMatching)
        /\ PerfMatching /= {} =>
              {result.top_symbols[i].symbol : i \in 1 .. Len(result.top_symbols)}
                  = PerfTickers

\* one trade of the strategy counted, another of the same strategy left out
\* because it lies after now, both of non-zero value
C13_Witness ==
    /\ IsPerformance
    /\ StrategyExists(call.strategy_id)
    /\ result.trade_count = 1
    /\ result.performance_summary.total_value > 0
    /\ \E i \in 1 .. Len(trades) :
          /\ trades[i].strategy_id = call.strategy_id
          /\ trades[i].timestamp > call.now
          /\ trades[i].total_value > 0

(***************************************************************************)
(* C14: calculate_trading_metrics and analyze_strategy_performance leave   *)
(* the Trade, Symbol, Trader and Strategy tables unchanged, on every path  *)
(* (not found and empty result included): a step that is a call of either  *)
(* leaves the four tables as they were.                                    *)
(***************************************************************************)
C14_AnalyticsReadOnly ==
    [][(call' /= call /\ call'.op \in {"calculate_trading_metrics",
                                        "analyze_strategy_performance"})
          => dbVars' = dbVars]_vars

\* a metrics call that found nothing to aggregate in a database that holds trades
C14_Witness ==
    /\ IsMetrics
    /\ result.trade_count = 0
    /\ trades /= << >>
    /\ symbols /= << >>
    /\ strategies /= << >>

(***************************************************************************)
(* C16: load_trading_data looks each natural key up before it inserts and  *)
(* reuses the row it finds: starting from the empty database, after any    *)
(* runs no two Symbol rows share a symbol, no two Trader rows a name and   *)
(* no two Strategy rows a name, whether the key is repeated within a file  *)
(* or was there before the run; every trade refers to the one row of its   *)
(* key.                                                                    *)
(***************************************************************************)
UniqueIn(table, col) ==
    \A i, j \in 1 .. Len(table) : table[i][col] = table[j][col] => i = j

C16_LoadReusesDimensionRows ==
    /\ UniqueIn(symbols, "symbol")
    /\ UniqueIn(traders, "name")
    /\ UniqueIn(strategies, "name")
    /\ Len(symbols) <= Len(trades)
    /\ Len(traders) <= Len(trades)
    /\ Len(strategies) <= Len(trades)

\* two trades that share symbol, trader and strategy: one row of each
C16_Witness ==
    /\ Len(trades) = 2
    /\ trades[1].symbol_id = trades[2].symbol_id
    /\ trades[1].strategy_id = trades[2].strategy_id
    /\ trades[1].trader_id = trades[2].trader_id
    /\ Len(symbols) = 1
    /\ Len(traders) = 1
    /\ Len(strategies) = 1

(***************************************************************************)
(* C15: after any sequence of runs of load_trading_data,                   *)
(* add_sample_trading_data and load_market_data, every committed Trade row *)
(* has a symbol_id, a trader_id and a strategy_id that are each the id of  *)
(* exactly one Symbol, Trader and Strategy row.                            *)
(***************************************************************************)
RefersToOne(id, table) ==
    Cardinality({k \in 1 .. Len(table) : table[k].id = id}) = 1

C15_ReferentialIntegrity ==
    \A i \in 1 .. Len(trades) :
        /\ RefersToOne(trades[i].symbol_id, symbols)
        /\ RefersToOne(trades[i].trader_id, traders)
        /\ RefersToOne(trades[i].strategy_id, strategies)

\* the market data seeded without a trade, then the sample data with its
\* trades, then a CSV file with a ticker of its own
C15_Witness ==
    /\ Len(symbols) > Len(MarketSymbols) + Len(SampleSymbols)
    /\ Len(trades) > MaxSampleTrades
    /\ \E i \in 1 .. Len(trades) : trades[i].symbol_id > Len(MarketSymbols)
    /\ trades[Len(trades)].symbol_id = Len(symbols)

(***************************************************************************)
(* C17: every Trade row created by an ingestion path has total_value equal *)
(* to quantity * price for the quantity and the price stored in the row,   *)
(* fractional quantities included, and no step changes a Trade row that    *)
(* exists.                                                                 *)
(***************************************************************************)
C17_TotalValueIsProduct ==
    /\ [](\A i \in 1 .. Len(trades) :
             trades[i].total_value = trades[i].quantity * trades[i].price)
    /\ [][/\ Len(trades') >= Len(trades)
           /\ \A i \in 1 .. Len(trades) : trades'[i] = trades[i]]_vars

\* a trade of a fraction of a share, of non-zero value, with a trade of whole
\* shares created after it
C17_Witness ==
    \E i, j \in 1 .. Len(trades) :
        /\ i < j
        /\ trades[i].quantity % QuantityPerShare /= 0
        /\ trades[i].total_value > 0
        /\ trades[j].quantity % QuantityPerShare = 0
        /\ trades[j].quantity > 0

(***************************************************************************)
(* C19: the seeding loaders are idempotent: after any number of            *)
(* invocations of load_market_data, one after the other, downloads that    *)
(* fail or return no data included, each seeded symbol, trader name and    *)
(* strategy name is in at most one dimension row.                          *)
(***************************************************************************)
C19_SeedingIdempotent ==
    /\ UniqueIn(symbols, "symbol")
    /\ UniqueIn(traders, "name")
    /\ UniqueIn(strategies, "name")

(***************************************************************************)
(* C18: natural keys are unique under concurrency: however two or more     *)
(* runs of load_trading_data over files with the same symbol, trader and   *)
(* strategy interleave, each in its own session, the committed Symbol      *)
(* table never holds two rows of one symbol, nor the Trader or Strategy    *)
(* table two rows of one name.                                             *)
(***************************************************************************)
KeysOf(table, col) == {table[i][col] : i \in 1 .. Len(table)}

C18_UniqueUnderConcurrency ==
    /\ Cardinality(KeysOf(symbols, "symbol")) = Len(symbols)
    /\ Cardinality(KeysOf(traders, "name")) = Len(traders)
    /\ Cardinality(KeysOf(strategies, "name")) = Len(strategies)

====
